---- MODULE Spec2Model ----
(***************************************************************************)
(* A model of utils/parsing/sambaparse.py: SambaParse.run_ingest (clear    *)
(* the output directory, build the unstructured-ingest command, run it)    *)
(* and additional_processing (normalise the JSON element files the         *)
(* ingestion process wrote).                                               *)
(*                                                                         *)
(* A Python dict is a function whose DOMAIN is its key set.  An Optional   *)
(* value is None (the empty tuple) or Some(v) (a one-element tuple).       *)
(***************************************************************************)
EXTENDS Integers, Sequences, FiniteSets, TLC

VARIABLES
    config,         \* self.config, loaded once by __init__
    api_key,        \* os.getenv("UNSTRUCTURED_API_KEY"), an Optional string
    disk,           \* path -> [fmt, data, fresh]: the files under the output directory
    out_exists,     \* whether the output directory itself exists
    pc,             \* position of the caller: idle, build, spawn, post, ap_entry, processing, done
    args,           \* arguments of the run_ingest call in progress
    command,        \* the token list `command` of run_ingest
    spawned,        \* the subprocesses run by the call in progress, in order
    ap,             \* arguments of the additional_processing call in progress
    file_paths,     \* the paths of additional_processing still to be processed
    texts,          \* additional_processing's running list of texts
    metadata_list,  \* additional_processing's running list of metadata records
    langchain_docs, \* additional_processing's running list of documents
    result,         \* what the call in progress gave its caller
    hist            \* history: whether the call of run_ingest found files in the output
                    \* directory, the disk when additional_processing began, the paths
                    \* it read and the paths it wrote, in order

vars == <<config, api_key, disk, out_exists, pc, args, command, spawned, ap,
          file_paths, texts, metadata_list, langchain_docs, result, hist>>

-----------------------------------------------------------------------------
(* Python values *)

None == <<>>
Some(v) == <<v>>

\* a variant of Update in which the keys already present keep their values
UpdateKeepsOld(d, other) ==
    [k \in (DOMAIN d) \cup (DOMAIN other) |-> IF k \in DOMAIN d THEN d[k] ELSE other[k]]

\* dict.update(other): keys of other overwrite
Update(d, other) ==
    [k \in (DOMAIN d) \cup (DOMAIN other) |-> IF k \in DOMAIN other THEN other[k] ELSE d[k]]

\* d[key] = value
SetItem(d, key, value) ==
    [k \in (DOMAIN d) \cup {key} |-> IF k = key THEN value ELSE d[k]]

\* truth value of an Optional[Dict]: None and {} are both false
Truthy(opt) == opt # None /\ DOMAIN opt[1] # {}

\* str.endswith
EndsWith(s, suffix) ==
    Len(s) >= Len(suffix) /\ SubSeq(s, Len(s) - Len(suffix) + 1, Len(s)) = suffix

\* os.path.join(directory, f)
PathJoin(directory, f) == directory \o "/" \o f

-----------------------------------------------------------------------------
(* additional_processing: one element *)

Ok(element) == [err |-> "", element |-> element]
KeyError(element) == [err |-> "KeyError", element |-> element]

\* line 160: element['metadata'].update(additional_metadata)
MergeMetadata(element, additional) ==
    IF "metadata" \notin DOMAIN element
    THEN KeyError(element)
    ELSE Ok([element EXCEPT !["metadata"] = Update(@, additional)])

\* a variant of ReplaceTableText that does not look at the element's type
ReplaceTextAnyType(element, table_text_key) ==
    IF "type" \notin DOMAIN element THEN KeyError(element)
    ELSE IF "metadata" \notin DOMAIN element THEN KeyError(element)
    ELSE IF table_text_key \notin DOMAIN element["metadata"] THEN KeyError(element)
    ELSE Ok(SetItem(element, "text", element["metadata"][table_text_key]))

\* lines 162-163, under replace_table_text:
\* if element['type'] == 'Table': element['text'] = element['metadata'][table_text_key]
ReplaceTableText(element, table_text_key) ==
    IF "type" \notin DOMAIN element THEN KeyError(element)
    ELSE IF element["type"] # "Table" THEN Ok(element)
    ELSE IF "metadata" \notin DOMAIN element THEN KeyError(element)
    ELSE IF table_text_key \notin DOMAIN element["metadata"] THEN KeyError(element)
    ELSE Ok(SetItem(element, "text", element["metadata"][table_text_key]))

\* lines 166-168: the top-level keys laid over the copied metadata
OverlayKeys(element) == (DOMAIN element) \ {"text", "metadata", "embeddings"}

\* a variant of BuildMetadata that keeps a 'page' key the element already carries
BuildMetadataKeepsPage(element) ==
    LET copied  == element["metadata"]
        overlay == [k \in (DOMAIN copied) \cup OverlayKeys(element) |->
                        IF k \in OverlayKeys(element) THEN element[k] ELSE copied[k]]
    IN  IF "page" \in DOMAIN overlay THEN overlay
        ELSE SetItem(overlay, "page",
                     IF "page_number" \in DOMAIN overlay THEN overlay["page_number"] ELSE 1)

\* lines 165-172: the metadata record of an element that has a metadata mapping
BuildMetadata(element) ==
    LET copied  == element["metadata"]
        overlay == [k \in (DOMAIN copied) \cup OverlayKeys(element) |->
                        IF k \in OverlayKeys(element) THEN element[k] ELSE copied[k]]
    IN  SetItem(overlay, "page",
                IF "page_number" \in DOMAIN overlay THEN overlay["page_number"] ELSE 1)

\* a variant of ElementAfterRecord without the copy: the record is the element's own
\* mapping, and the element carries what was written to it
ElementSharesRecord(element, metadata) == [element EXCEPT !["metadata"] = metadata]

\* line 165 takes a copy of the mapping (dict.copy), so the writes of lines 168-172
\* go to the record and the element keeps the mapping it had
ElementAfterRecord(element, metadata) == element

\* lines 159-175: one pass of the loop body
ProcessElement(element, a) ==
    LET s1 == IF a.extend_metadata /\ Truthy(a.additional_metadata)
              THEN MergeMetadata(element, a.additional_metadata[1])
              ELSE Ok(element)
        s2 == IF s1.err # "" THEN s1
              ELSE IF a.replace_table_text
                   THEN ReplaceTableText(s1.element, a.table_text_key)
                   ELSE s1
        failed(e) == [err |-> "KeyError", element |-> e, text |-> "", metadata |-> <<>>]
    IN  IF s2.err # "" THEN failed(s2.element)
        ELSE IF "metadata" \notin DOMAIN s2.element THEN failed(s2.element)
        ELSE LET metadata == BuildMetadata(s2.element)
                 e3       == ElementAfterRecord(s2.element, metadata)
             IN  IF "text" \notin DOMAIN e3 THEN failed(e3)
                 ELSE [err |-> "", element |-> e3, text |-> e3["text"],
                       metadata |-> metadata]

\* lines 158-175: the loop over the elements of one file; it stops at the first error
RECURSIVE ProcessElements(_, _, _, _)
ProcessElements(data, a, i, acc) ==
    IF i > Len(data) \/ acc.err # "" THEN acc
    ELSE LET r == ProcessElement(data[i], a)
         IN  ProcessElements(data, a, i + 1,
                 IF r.err # ""
                 THEN [acc EXCEPT !.err = r.err]
                 ELSE [err |-> "",
                       data |-> [acc.data EXCEPT ![i] = r.element],
                       texts |-> Append(acc.texts, r.text),
                       metadata_list |-> Append(acc.metadata_list, r.metadata)])

ProcessData(data, a) ==
    ProcessElements(data, a, 1,
        [err |-> "", data |-> data, texts |-> <<>>, metadata_list |-> <<>>])

Min(a, b) == IF a <= b THEN a ELSE b

\* lines 185-189: zip(texts, metadata_list) into documents
get_langchain_docs(ts, ms) ==
    [i \in 1..Min(Len(ts), Len(ms)) |-> [page_content |-> ts[i], metadata |-> ms[i]]]

-----------------------------------------------------------------------------
(* results of a call *)

NoResult == [kind |-> "none", exc |-> "", value |-> None]
Raise(exc) == [kind |-> "raise", exc |-> exc, value |-> None]
Return(value) == [kind |-> "return", exc |-> "", value |-> value]

-----------------------------------------------------------------------------
(* additional_processing: the files *)

OutDir == "out"

\* os.path.isfile(path)
IsFile(path) == path \in DOMAIN disk

\* os.listdir(OutDir): the names under the output directory
ListDir == {SubSeq(p, Len(OutDir) + 2, Len(p)) : p \in DOMAIN disk}

\* lines 145-152
ListFiles ==
    /\ pc = "ap_entry"
    /\ IF IsFile(ap.directory)
       THEN /\ file_paths' = {ap.directory}
            /\ pc' = "processing"
            /\ result' = result
       ELSE IF ap.directory = OutDir /\ out_exists
       THEN /\ file_paths' = {PathJoin(ap.directory, f) : f \in {g \in ListDir : EndsWith(g, ".json")}}
            /\ pc' = "processing"
            /\ result' = result
       ELSE /\ file_paths' = {}
            /\ pc' = "done"
            /\ result' = Raise("FileNotFoundError")
    /\ texts' = <<>>
    /\ metadata_list' = <<>>
    /\ langchain_docs' = <<>>
    /\ hist' = [hist EXCEPT !.disk0 = disk, !.read = <<>>, !.written = <<>>]
    /\ UNCHANGED <<config, api_key, disk, out_exists, args, command, spawned, ap>>

\* a variant of FileFailed in which the file was already open for writing when the
\* exception came, and is left empty
FileFailedTruncated(file_path, exc) ==
    /\ result' = Raise(exc)
    /\ pc' = "done"
    /\ hist' = [hist EXCEPT !.read = Append(@, file_path)]
    /\ disk' = [disk EXCEPT ![file_path] = [@ EXCEPT !.data = <<>>]]
    /\ UNCHANGED <<file_paths, texts, metadata_list, langchain_docs>>

\* an exception leaves the loop (lines 155-175) before the file is reopened for
\* writing: nothing of this pass is kept
FileFailed(file_path, exc) ==
    /\ result' = Raise(exc)
    /\ pc' = "done"
    /\ hist' = [hist EXCEPT !.read = Append(@, file_path)]
    /\ UNCHANGED <<disk, file_paths, texts, metadata_list, langchain_docs>>

\* a variant of FileDone that makes documents of the file's own elements only
FileDoneOwnDocs(file_path, r) ==
    /\ texts' = texts \o r.texts
    /\ metadata_list' = metadata_list \o r.metadata_list
    /\ langchain_docs' = IF ap.return_langchain_docs
                         THEN langchain_docs \o get_langchain_docs(r.texts, r.metadata_list)
                         ELSE langchain_docs
    /\ disk' = [disk EXCEPT ![file_path] = [@ EXCEPT !.fmt = "indent2", !.data = r.data]]
    /\ file_paths' = file_paths \ {file_path}
    /\ hist' = [hist EXCEPT !.read = Append(@, file_path),
                            !.written = Append(@, file_path)]
    /\ UNCHANGED <<pc, result>>

\* lines 174-181: the lists grow by the file's elements, the documents by one per
\* entry of the whole lists, and json.dump(data, file, indent=2) rewrites the file
FileDone(file_path, r) ==
    LET ts == texts \o r.texts
        ms == metadata_list \o r.metadata_list
    IN  /\ texts' = ts
        /\ metadata_list' = ms
        /\ langchain_docs' = IF ap.return_langchain_docs
                             THEN langchain_docs \o get_langchain_docs(ts, ms)
                             ELSE langchain_docs
        /\ disk' = [disk EXCEPT ![file_path] = [@ EXCEPT !.fmt = "indent2", !.data = r.data]]
        /\ file_paths' = file_paths \ {file_path}
        /\ hist' = [hist EXCEPT !.read = Append(@, file_path),
                                !.written = Append(@, file_path)]
        /\ UNCHANGED <<pc, result>>

\* lines 154-181: one pass of the loop over file_paths (os.listdir gives the names
\* in an arbitrary order)
ProcessFile ==
    /\ pc = "processing"
    /\ \E file_path \in file_paths :
        LET file == disk[file_path]
            r    == ProcessData(file.data, ap)
        IN  IF file.fmt = "raw"
            THEN FileFailed(file_path, "JSONDecodeError")  \* line 156: not JSON
            ELSE IF r.err # ""
            THEN FileFailed(file_path, r.err)
            ELSE FileDone(file_path, r)
    /\ UNCHANGED <<config, api_key, out_exists, args, command, spawned, ap>>

\* line 183 (and line 141 when run_ingest made the call)
ReturnTuple ==
    /\ pc = "processing"
    /\ file_paths = {}
    /\ result' = Return(Some(<<texts, metadata_list, langchain_docs>>))
    /\ pc' = "done"
    /\ UNCHANGED <<config, api_key, disk, out_exists, args, command, spawned, ap,
                   file_paths, texts, metadata_list, langchain_docs, hist>>

-----------------------------------------------------------------------------
(* run_ingest: the command *)

\* str(n) of a natural number
RECURSIVE Str(_)
Str(n) ==
    LET digit(d) == <<"0", "1", "2", "3", "4", "5", "6", "7", "8", "9">>[d + 1]
    IN  IF n < 10 THEN digit(n) ELSE Str(n \div 10) \o digit(n % 10)

\* sep.join(items)
RECURSIVE Join(_, _)
Join(items, sep) ==
    IF items = <<>> THEN ""
    ELSE IF Len(items) = 1 THEN items[1]
    ELSE items[1] \o sep \o Join(Tail(items), sep)

Tokens(tokens) == [err |-> "", tokens |-> tokens]
ValueError == [err |-> "ValueError", tokens |-> <<>>]

\* lines 24-29
BaseArgs(c, source_type) ==
    <<"unstructured-ingest", source_type,
      "--output-dir", c.processor.output_dir,
      "--num-processes", Str(c.processor.num_processes)>>

\* lines 32-48
PartitionArgs(c) ==
    <<"--strategy", c.partitioning.strategy,
      "--ocr-languages", Join(c.partitioning.ocr_languages, ","),
      "--encoding", c.partitioning.encoding,
      "--fields-include", Join(c.partitioning.fields_include, ","),
      "--metadata-exclude", Join(c.partitioning.metadata_exclude, ","),
      "--metadata-include", Join(c.partitioning.metadata_include, ",")>>
    \o (IF ~c.partitioning.pdf_infer_table_structure
        THEN <<"--pdf-infer-table-structure">> ELSE <<>>)
    \o (IF c.partitioning.skip_infer_table_types # <<>>
        THEN <<"--skip-infer-table-types", Join(c.partitioning.skip_infer_table_types, ",")>>
        ELSE <<>>)
    \o (IF c.partitioning.flatten_metadata THEN <<"--flatten-metadata">> ELSE <<>>)

\* lines 50-68: the source types with a branch of their own
ValidSources == {"local", "confluence", "github", "google-drive"}

\* lines 50-76
SourceArgs(c, source_type, input_path) ==
    IF source_type = "local"
    THEN IF input_path = None
         THEN ValueError
         ELSE Tokens(<<"--input-path", "\"" \o input_path[1] \o "\"">>
                     \o (IF c.sources.local.recursive THEN <<"--recursive">> ELSE <<>>))
    ELSE IF source_type = "confluence"
    THEN Tokens(<<"--url", c.sources.confluence.url,
                  "--user-email", c.sources.confluence.user_email,
                  "--api-token", c.sources.confluence.api_token>>)
    ELSE IF source_type = "github"
    THEN Tokens(<<"--url", c.sources.github.url,
                  "--git-branch", c.sources.github.branch>>)
    ELSE IF source_type = "google-drive"
    THEN Tokens(<<"--drive-id", c.sources.google_drive.drive_id,
                  "--service-account-key", c.sources.google_drive.service_account_key>>
                \o (IF c.sources.google_drive.recursive THEN <<"--recursive">> ELSE <<>>))
    ELSE ValueError

\* lines 78-79
VerboseArgs(c) == IF c.processor.verbose THEN <<"--verbose">> ELSE <<>>

\* a variant of ApiArgs that takes an empty key for a key
ApiArgsKeyNotNone(c, key) ==
    IF c.partitioning.partition_by_api
    THEN IF key # None
         THEN Tokens(<<"--partition-by-api", "--api-key", key[1],
                       "--partition-endpoint", c.partitioning.partition_endpoint>>)
         ELSE ValueError
    ELSE Tokens(<<>>)

\* lines 81-88; `if api_key:` is false for None and for the empty string
ApiArgs(c, key) ==
    IF c.partitioning.partition_by_api
    THEN IF key # None /\ key[1] # ""
         THEN Tokens(<<"--partition-by-api", "--api-key", key[1],
                       "--partition-endpoint", c.partitioning.partition_endpoint>>)
         ELSE ValueError
    ELSE Tokens(<<>>)

\* lines 91-102
ChunkEmbedArgs(c) ==
    (IF c.chunking.enabled
     THEN <<"--chunking-strategy", c.chunking.strategy,
            "--chunk-max-characters", Str(c.chunking.chunk_max_characters),
            "--chunk-overlap", Str(c.chunking.chunk_overlap)>>
     ELSE <<>>)
    \o (IF c.embedding.enabled
        THEN <<"--embedding-provider", c.embedding.provider,
               "--embedding-model-name", c.embedding.model_name>>
        ELSE <<>>)

\* lines 104-124
DestinationArgs(c) ==
    LET d == c.destination_connectors
    IN  IF ~d.enabled THEN Tokens(<<>>)
        ELSE IF d.type = "chroma"
        THEN Tokens(<<"chroma", "--host", d.chroma.host, "--port", Str(d.chroma.port),
                      "--collection-name", d.chroma.collection_name,
                      "--tenant", d.chroma.tenant, "--database", d.chroma.database,
                      "--batch-size", Str(d.batch_size)>>)
        ELSE IF d.type = "qdrant"
        THEN Tokens(<<"qdrant", "--location", d.qdrant.location,
                      "--collection-name", d.qdrant.collection_name,
                      "--batch-size", Str(d.batch_size)>>)
        ELSE ValueError

\* lines 24-124: the token list, or the ValueError of the first failing check
BuildTokens(c, source_type, input_path, key) ==
    LET src  == SourceArgs(c, source_type, input_path)
        api  == ApiArgs(c, key)
        dest == DestinationArgs(c)
    IN  IF src.err # "" THEN src
        ELSE IF api.err # "" THEN api
        ELSE IF dest.err # "" THEN dest
        ELSE Tokens(BaseArgs(c, source_type) \o PartitionArgs(c) \o src.tokens
                    \o VerboseArgs(c) \o api.tokens \o ChunkEmbedArgs(c) \o dest.tokens)

\* line 19
DelCommand(c) == "rm -rf " \o c.processor.output_dir

-----------------------------------------------------------------------------
(* the inputs the model draws from *)

\* the most elements of a file (SpecNorm) and the most JSON files of a directory
\* (SpecFiles)
MaxElements == 1
MaxFiles == 2

Field(key, opt) == IF opt = None THEN <<>> ELSE (key :> opt[1])

\* an element with (or without) text, type and metadata, and further top-level keys
MakeElement(text, type, metadata, extra) ==
    Field("text", text) @@ Field("type", type) @@ Field("metadata", metadata) @@ extra

TextChoices == {None, Some("A")}
TypeChoices == {None, Some("Table"), Some("NarrativeText")}
MetadataChoices ==
    {None,
     Some(<<>>),
     Some(("page_number" :> 3) @@ ("summary" :> "B")),
     Some(("source" :> "y") @@ ("page" :> 7)),
     Some(("summary" :> "B") @@ ("source" :> "y"))}
ExtraChoices ==
    {<<>>,
     ("source" :> "z"),
     ("page_number" :> 5) @@ ("embeddings" :> <<1, 2>>),
     ("page" :> 9)}

Elements ==
    {MakeElement(t, ty, m, x) :
        t \in TextChoices, ty \in TypeChoices, m \in MetadataChoices, x \in ExtraChoices}

SeqsUpTo(S, n) == UNION {[1..k -> S] : k \in 0..n}

AM_Source == ("source" :> "x")
AM_Table == ("summary" :> "C") @@ ("source" :> "x")
AM_Page == ("page_number" :> 8) @@ ("page" :> 4)

\* elements of the files of SpecFiles and of the ingestion process of Spec
Plain == MakeElement(Some("A"), Some("NarrativeText"), Some(("page_number" :> 3)), <<>>)
Table == MakeElement(Some("A"), Some("Table"),
                     Some(("page_number" :> 3) @@ ("summary" :> "B")), <<>>)
NoText == MakeElement(None, Some("NarrativeText"), Some(<<>>), <<>>)
NoMetadata == MakeElement(Some("A"), Some("NarrativeText"), None, <<>>)

FileContents == {<<>>, <<Plain>>, <<Table, Plain>>, <<Table, NoText>>, <<NoMetadata>>}

JsonFile(data, fresh) == [fmt |-> "tool", data |-> data, fresh |-> fresh]
RawFile(fresh) == [fmt |-> "raw", data |-> <<>>, fresh |-> fresh]

JsonName(i) == PathJoin(OutDir, <<"a", "b", "c", "d">>[i] \o ".json")
LogName == PathJoin(OutDir, "log.txt")

\* the directories holding JSON files of the given names and contents, and a log
Directories(names, contents) ==
    UNION {{[p \in S \cup {LogName} |->
                IF p = LogName THEN RawFile(TRUE) ELSE JsonFile(d[p], TRUE)] :
            d \in [S -> contents]} : S \in SUBSET names}

\* what the ingestion process may leave in the output directory
IngestOutputs ==
    {<<>>} \cup Directories({JsonName(1), JsonName(2)}, {<<Table, Plain>>, <<NoText>>})

SourceTypes == {"local", "confluence", "github", "google-drive", "s3"}

\* the calls of run_ingest: a local source with every kind of input path, the other
\* sources with the default one
ArgChoices ==
    {a \in [source_type : SourceTypes,
            input_path : {None, Some(""), Some("docs")},
            additional_metadata : {None, Some(AM_Source)}] :
        a.source_type = "local" \/ a.input_path = None}

\* self.config: the sections and keys run_ingest reads
MakeConfig(partition_by_api, recursive, destination, enabled) ==
    [processor |-> [output_dir |-> OutDir, num_processes |-> 2, verbose |-> FALSE],
     partitioning |->
        [strategy |-> "auto", ocr_languages |-> <<"eng">>, encoding |-> "utf-8",
         fields_include |-> <<"element_id", "text", "type", "metadata", "embeddings">>,
         metadata_exclude |-> <<>>, metadata_include |-> <<>>,
         pdf_infer_table_structure |-> TRUE,
         skip_infer_table_types |-> <<"pdf">>,
         flatten_metadata |-> FALSE,
         partition_by_api |-> partition_by_api,
         partition_endpoint |-> "https://api.example/general/v0/general"],
     sources |->
        [local |-> [recursive |-> recursive],
         confluence |-> [url |-> "https://wiki.example", user_email |-> "u@example",
                         api_token |-> "token"],
         github |-> [url |-> "owner/repo", branch |-> "main"],
         google_drive |-> [drive_id |-> "drive", service_account_key |-> "key.json",
                           recursive |-> recursive]],
     chunking |-> [enabled |-> TRUE, strategy |-> "basic",
                   chunk_max_characters |-> 1500, chunk_overlap |-> 300],
     embedding |-> [enabled |-> FALSE, provider |-> "langchain-huggingface",
                    model_name |-> "intfloat/e5-large-v2"],
     destination_connectors |->
        [enabled |-> destination # None,
         type |-> IF destination = None THEN "chroma" ELSE destination[1],
         batch_size |-> 80,
         chroma |-> [host |-> "localhost", port |-> 8004, collection_name |-> "snconf",
                     tenant |-> "default_tenant", database |-> "default_database"],
         qdrant |-> [location |-> "http://localhost:6333", collection_name |-> "test"]],
     additional_processing |->
        [enabled |-> enabled, extend_metadata |-> TRUE, replace_table_text |-> TRUE,
         table_text_key |-> "summary", return_langchain_docs |-> TRUE]]

Configs ==
    {MakeConfig(p, rd[1], rd[2], e) :
        p \in BOOLEAN,
        rd \in {<<TRUE, None>>, <<FALSE, Some("chroma")>>, <<FALSE, Some("qdrant")>>,
                <<TRUE, Some("pinecone")>>},
        e \in BOOLEAN}

ApiKeys == {None, Some(""), Some("key")}

\* exit codes of a subprocess: success and a failure
ExitCodes == {0, 1}

-----------------------------------------------------------------------------
(* run_ingest: the steps *)

Restrict(f, S) == [p \in S |-> f[p]]

NoArgs == [source_type |-> "", input_path |-> None, additional_metadata |-> None]
NoAp == [directory |-> "", extend_metadata |-> FALSE, additional_metadata |-> None,
         replace_table_text |-> FALSE, table_text_key |-> "",
         return_langchain_docs |-> FALSE]
NoHist == [prior |-> FALSE, disk0 |-> <<>>, read |-> <<>>, written |-> <<>>]

\* a variant of CheckReturnCode for check=False: no exit code raises
IgnoreReturnCode(rc) == ""

\* subprocess.run(..., check=True): a non-zero exit raises
CheckReturnCode(rc) == IF rc = 0 THEN "" ELSE "CalledProcessError"

\* a variant of RmRf that removes the JSON files only
RmJsonOnly(files) == Restrict(files, {p \in DOMAIN files : ~EndsWith(p, ".json")})

\* what `rm -rf output_dir` leaves of the files under the directory
RmRf(files) == <<>>

\* lines 16-22: the call, and `rm -rf output_dir` run with check=True.  Files an
\* earlier call left are marked not fresh; a failing rm may have removed any of them.
CallRunIngest ==
    /\ pc \in {"idle", "done"}
    /\ \E a \in ArgChoices, rc \in ExitCodes :
        LET stale == [p \in DOMAIN disk |-> [disk[p] EXCEPT !.fresh = FALSE]]
        IN  /\ args' = a
            /\ spawned' = <<[cmd |-> DelCommand(config), rc |-> rc]>>
            /\ IF CheckReturnCode(rc) = ""
               THEN /\ disk' = RmRf(stale)
                    /\ out_exists' = FALSE
                    /\ pc' = "build"
                    /\ result' = NoResult
               ELSE /\ out_exists
                    /\ \E kept \in SUBSET DOMAIN disk : disk' = Restrict(stale, kept)
                    /\ out_exists' = TRUE
                    /\ pc' = "done"
                    /\ result' = Raise(CheckReturnCode(rc))
    /\ command' = <<>>
    /\ ap' = NoAp
    /\ file_paths' = {}
    /\ texts' = <<>>
    /\ metadata_list' = <<>>
    /\ langchain_docs' = <<>>
    /\ hist' = [NoHist EXCEPT !.prior = (DOMAIN disk # {})]
    /\ UNCHANGED <<config, api_key>>

\* lines 24-127: the command is assembled, or a ValueError is raised
BuildCommand ==
    /\ pc = "build"
    /\ LET b == BuildTokens(config, args.source_type, args.input_path, api_key)
       IN  IF b.err # ""
           THEN /\ result' = Raise(b.err)
                /\ pc' = "done"
                /\ command' = command
           ELSE /\ command' = b.tokens
                /\ pc' = "spawn"
                /\ result' = result
    /\ UNCHANGED <<config, api_key, disk, out_exists, args, spawned, ap, file_paths,
                   texts, metadata_list, langchain_docs, hist>>

\* line 129: the ingestion process, run with check=True.  It writes its files into
\* the output directory; a process that fails may have written some.
RunCommand ==
    /\ pc = "spawn"
    /\ \E rc \in ExitCodes, output \in IngestOutputs, made \in BOOLEAN :
        /\ spawned' = Append(spawned, [cmd |-> Join(command, " "), rc |-> rc])
        /\ disk' = Update(disk, output)
        /\ (rc = 0 \/ DOMAIN output # {}) => made
        /\ out_exists' = (out_exists \/ made)
        /\ IF CheckReturnCode(rc) = ""
           THEN /\ pc' = "post"
                /\ result' = result
           ELSE /\ pc' = "done"
                /\ result' = Raise(CheckReturnCode(rc))
    /\ UNCHANGED <<config, api_key, args, command, ap, file_paths, texts,
                   metadata_list, langchain_docs, hist>>

\* lines 132-141: the call of additional_processing, or the end of run_ingest
AfterIngest ==
    /\ pc = "post"
    /\ IF config.additional_processing.enabled
       THEN /\ ap' = [directory |-> config.processor.output_dir,
                      extend_metadata |-> config.additional_processing.extend_metadata,
                      additional_metadata |-> args.additional_metadata,
                      replace_table_text |-> config.additional_processing.replace_table_text,
                      table_text_key |-> config.additional_processing.table_text_key,
                      return_langchain_docs |->
                          config.additional_processing.return_langchain_docs]
            /\ pc' = "ap_entry"
            /\ result' = result
       ELSE /\ ap' = ap
            /\ pc' = "done"
            /\ result' = Return(None)
    /\ UNCHANGED <<config, api_key, disk, out_exists, args, command, spawned,
                   file_paths, texts, metadata_list, langchain_docs, hist>>

-----------------------------------------------------------------------------
(* specifications *)

\* Spec: a SambaParse object and its calls of run_ingest
Init ==
    /\ config \in Configs
    /\ api_key \in ApiKeys
    /\ disk = <<>>
    /\ out_exists = FALSE
    /\ pc = "idle"
    /\ args = NoArgs
    /\ command = <<>>
    /\ spawned = <<>>
    /\ ap = NoAp
    /\ file_paths = {}
    /\ texts = <<>>
    /\ metadata_list = <<>>
    /\ langchain_docs = <<>>
    /\ result = NoResult
    /\ hist = NoHist

Next ==
    \/ CallRunIngest
    \/ BuildCommand
    \/ RunCommand
    \/ AfterIngest
    \/ ListFiles
    \/ ProcessFile
    \/ ReturnTuple

Spec == Init /\ [][Next]_vars

\* a direct call of additional_processing with the given directories and arguments
InitCall(disks, directories, extends, additionals, replaces, emits) ==
    /\ config = MakeConfig(FALSE, FALSE, None, TRUE)
    /\ api_key = None
    /\ disk \in disks
    /\ out_exists = TRUE
    /\ pc = "ap_entry"
    /\ args = NoArgs
    /\ command = <<>>
    /\ spawned = <<>>
    /\ ap \in [directory : directories, extend_metadata : extends,
               additional_metadata : additionals, replace_table_text : replaces,
               table_text_key : {"summary"}, return_langchain_docs : emits]
    /\ file_paths = {}
    /\ texts = <<>>
    /\ metadata_list = <<>>
    /\ langchain_docs = <<>>
    /\ result = NoResult
    /\ hist = NoHist

NextCall ==
    \/ ListFiles
    \/ ProcessFile
    \/ ReturnTuple

\* SpecNorm: additional_processing on one file of any elements
InitNorm ==
    InitCall({[p \in {JsonName(1)} |-> JsonFile(d, TRUE)] : d \in SeqsUpTo(Elements, MaxElements)},
             {OutDir}, BOOLEAN, {None, Some(<<>>), Some(AM_Table), Some(AM_Page)},
             BOOLEAN, BOOLEAN)

SpecNorm == InitNorm /\ [][NextCall]_vars

\* SpecFiles: additional_processing on a directory of several files, or on one path
InitFiles ==
    InitCall(Directories({JsonName(i) : i \in 1..MaxFiles}, FileContents),
             {OutDir, JsonName(1), LogName, "nowhere"},
             BOOLEAN, {None, Some(<<>>), Some(AM_Table)}, BOOLEAN, BOOLEAN)

SpecFiles == InitFiles /\ [][NextCall]_vars

-----------------------------------------------------------------------------
(* properties of run_ingest, checked under Spec *)

UnsupportedSource == args.source_type \notin ValidSources
MissingApiKey ==
    config.partitioning.partition_by_api /\ (api_key = None \/ api_key = Some(""))
ConfigErrorCondition == pc # "idle" /\ (UnsupportedSource \/ MissingApiKey)

\* C1 as stated: when run_ingest raises the configuration error for an unsupported
\* source type or a missing API key, no subprocess has run, the delete command
\* included.
C1_NoProcessBeforeConfigError ==
    (ConfigErrorCondition /\ result = Raise("ValueError")) => spawned = <<>>

\* C1 as amended: under a configuration-error condition the ingestion process is
\* never spawned and the call ends by raising; when the configuration error is
\* raised exactly one subprocess has run, the delete command, which exited 0 and
\* has cleared the output directory.
C1_OnlyDeleteBeforeConfigError ==
    ConfigErrorCondition =>
        /\ Len(spawned) = 1
        /\ spawned[1].cmd = DelCommand(config)
        /\ pc \in {"build", "done"}
        /\ (pc = "done" => result.kind = "raise")
        /\ ((pc = "done" /\ spawned[1].rc = 0) => result = Raise("ValueError"))
        /\ (result = Raise("ValueError") =>
                spawned[1].rc = 0 /\ disk = <<>> /\ ~out_exists)

\* the configuration error of an unsupported source type, raised after the files an
\* earlier call had left were deleted
C1_Witness ==
    /\ UnsupportedSource
    /\ ~MissingApiKey
    /\ pc = "done"
    /\ result = Raise("ValueError")
    /\ hist.prior
    /\ Len(spawned) = 1

\* C2: with source_type 'local', a call whose input_path is None or the empty string
\* fails and never spawns the ingestion process; a call with a non-empty input_path
\* builds a command holding '--input-path' followed at once by the quoted path.
C2_LocalNeedsInputPath ==
    (pc # "idle" /\ args.source_type = "local") =>
        IF args.input_path \in {None, Some("")}
        THEN /\ Len(spawned) <= 1
             /\ pc \in {"build", "done"}
             /\ (pc = "done" => result.kind = "raise")
        ELSE command # <<>> =>
                \E i \in 1..(Len(command) - 1) :
                    /\ command[i] = "--input-path"
                    /\ command[i + 1] = "\"" \o args.input_path[1] \o "\""

\* C5: the output directory holds no file when the ingestion process is spawned,
\* and once the ingestion process of a call has ended no file that an earlier call
\* left is in it.
C5_NoArtifactOfEarlierRun ==
    /\ (pc = "spawn" => disk = <<>>)
    /\ (Len(spawned) = 2 => \A p \in DOMAIN disk : disk[p].fresh)

\* a later call, which found files in the directory, after its ingestion process
\* has written files
C5_Witness ==
    /\ hist.prior
    /\ pc = "post"
    /\ Len(spawned) = 2
    /\ DOMAIN disk # {}

\* C8: additional_processing runs, and a value is returned, only after the ingestion
\* process exited with code 0; after a non-zero exit run_ingest has raised, has run
\* the process once, has read and rewritten no file and returns nothing.
C8_NormalizerOnlyAfterExitZero ==
    /\ Len(spawned) <= 2
    /\ (pc \in {"post", "ap_entry", "processing"} \/ hist.read # <<>> \/ result.kind = "return")
            => (Len(spawned) = 2 /\ spawned[2].rc = 0)
    /\ (Len(spawned) = 2 /\ spawned[2].rc # 0) =>
            /\ pc = "done"
            /\ result = Raise("CalledProcessError")
            /\ ap = NoAp
            /\ hist.read = <<>>
            /\ hist.written = <<>>
            /\ \A p \in DOMAIN disk : disk[p].fmt # "indent2"

\* the ingestion process failed after writing JSON files, with additional processing
\* enabled
C8_Witness ==
    /\ Len(spawned) = 2
    /\ spawned[2].rc # 0
    /\ config.additional_processing.enabled
    /\ \E p \in DOMAIN disk : EndsWith(p, ".json")

-----------------------------------------------------------------------------
(* properties of additional_processing, checked under SpecNorm and SpecFiles *)

Returned == pc = "done" /\ result.kind = "return"

Extending == ap.extend_metadata /\ Truthy(ap.additional_metadata)

\* the elements of the files at the given paths, in order
RECURSIVE DataOf(_, _)
DataOf(d, paths) ==
    IF paths = <<>> THEN <<>> ELSE d[Head(paths)].data \o DataOf(d, Tail(paths))

\* the elements of the files written so far: as they were read, and as they are on disk
ElementsRead == DataOf(hist.disk0, hist.written)
ElementsWritten == DataOf(disk, hist.written)

\* C3 as stated: with extend_metadata and a non-empty additional_metadata, every
\* returned metadata record binds every key of additional_metadata to the value of
\* additional_metadata, whatever the element carried under that key in its metadata
\* mapping or as a top-level field.
C3_AdditionalMetadataWins ==
    (Returned /\ Extending) =>
        \A i \in 1..Len(metadata_list) :
            \A k \in DOMAIN ap.additional_metadata[1] :
                /\ k \in DOMAIN metadata_list[i]
                /\ metadata_list[i][k] = ap.additional_metadata[1][k]

\* C3 as amended: every returned metadata record has every key of
\* additional_metadata; a key other than 'page' that is no top-level field of the
\* element is bound to the value of additional_metadata, overriding the key of the
\* element's metadata mapping; a top-level field of the element (other than text,
\* metadata, embeddings) overrides additional_metadata; 'page' is set by the
\* page rule.
C3_AdditionalMetadataWinsInMapping ==
    (Returned /\ Extending) =>
        \A i \in 1..Len(metadata_list) :
            \A k \in DOMAIN ap.additional_metadata[1] :
                /\ k \in DOMAIN metadata_list[i]
                /\ IF k = "page" THEN TRUE
                   ELSE IF k \in OverlayKeys(ElementsRead[i])
                        THEN metadata_list[i][k] = ElementsRead[i][k]
                        ELSE metadata_list[i][k] = ap.additional_metadata[1][k]

\* an element whose metadata mapping had a key of additional_metadata under another
\* value
C3_Witness ==
    /\ Returned
    /\ Extending
    /\ \E i \in 1..Len(metadata_list) :
        \E k \in (DOMAIN ap.additional_metadata[1]) \ (OverlayKeys(ElementsRead[i]) \cup {"page"}) :
            /\ k \in DOMAIN ElementsRead[i]["metadata"]
            /\ ElementsRead[i]["metadata"][k] # ap.additional_metadata[1][k]
            /\ metadata_list[i][k] = ap.additional_metadata[1][k]

\* C6 as stated: every returned metadata record has 'page'; it is the page_number of
\* the element's metadata mapping (as merged) when the mapping has one, and 1 when
\* the element has no page_number key.
C6_PageFromMetadataMapping ==
    Returned =>
        \A i \in 1..Len(metadata_list) :
            LET e == ElementsWritten[i]
            IN  /\ "page" \in DOMAIN metadata_list[i]
                /\ IF "page_number" \in DOMAIN e["metadata"]
                   THEN metadata_list[i]["page"] = e["metadata"]["page_number"]
                   ELSE "page_number" \notin DOMAIN e => metadata_list[i]["page"] = 1

\* C6 as amended: every returned metadata record has 'page'; it is the element's
\* top-level page_number when the element has that field, else the page_number of
\* the element's metadata mapping (as merged) when the mapping has one, else 1,
\* whatever 'page' key the element or its metadata carried.
C6_PageFromRecord ==
    Returned =>
        \A i \in 1..Len(metadata_list) :
            LET e == ElementsWritten[i]
            IN  /\ "page" \in DOMAIN metadata_list[i]
                /\ metadata_list[i]["page"] =
                        IF "page_number" \in DOMAIN e THEN e["page_number"]
                        ELSE IF "page_number" \in DOMAIN e["metadata"]
                             THEN e["metadata"]["page_number"]
                             ELSE 1

\* an element with a 'page' key and no page_number, whose record has page 1
C6_Witness ==
    /\ Returned
    /\ \E i \in 1..Len(metadata_list) :
        LET e == ElementsWritten[i]
        IN  /\ "page" \in (DOMAIN e) \cup (DOMAIN e["metadata"])
            /\ "page_number" \notin (DOMAIN e) \cup (DOMAIN e["metadata"])
            /\ metadata_list[i]["page"] = 1

\* C7: with extend_metadata and replace_table_text both false, every file holds the
\* elements it held when additional_processing began, rewritten or not: building
\* the metadata records changes no element.
C7_RoundTrip ==
    (pc # "ap_entry" /\ ~ap.extend_metadata /\ ~ap.replace_table_text) =>
        /\ DOMAIN disk = DOMAIN hist.disk0
        /\ \A p \in DOMAIN disk : disk[p].data = hist.disk0[p].data
        /\ \A i \in 1..Len(hist.written) : disk[hist.written[i]].fmt = "indent2"

\* a rewritten file with an element whose record differs from its metadata mapping
C7_Witness ==
    /\ Returned
    /\ ~ap.extend_metadata
    /\ ~ap.replace_table_text
    /\ hist.written # <<>>
    /\ \E i \in 1..Len(metadata_list) :
        /\ OverlayKeys(ElementsRead[i]) # {}
        /\ metadata_list[i] # ElementsRead[i]["metadata"]

\* the text C9 expects of the i-th element
ExpectedText(i) ==
    LET e == ElementsRead[i]
    IN  IF ap.replace_table_text /\ e["type"] = "Table"
        THEN IF Extending /\ ap.table_text_key \in DOMAIN ap.additional_metadata[1]
             THEN ap.additional_metadata[1][ap.table_text_key]
             ELSE e["metadata"][ap.table_text_key]
        ELSE e["text"]

\* C9: with replace_table_text, the returned and the persisted text of a 'Table'
\* element are the value at table_text_key of its metadata mapping after the merge
\* (the value of additional_metadata when it has the key); the text of any other
\* element, and of every element without replace_table_text, is unchanged.
C9_TableText ==
    Returned =>
        \A i \in 1..Len(texts) :
            /\ "text" \in DOMAIN ElementsRead[i]
                    \/ (ap.replace_table_text /\ ElementsRead[i]["type"] = "Table")
            /\ texts[i] = ExpectedText(i)
            /\ ElementsWritten[i]["text"] = ExpectedText(i)

\* a 'Table' element whose text became the value additional_metadata gave, not the
\* value its own metadata had
C9_Witness ==
    /\ Returned
    /\ ap.replace_table_text
    /\ Extending
    /\ ap.table_text_key \in DOMAIN ap.additional_metadata[1]
    /\ \E i \in 1..Len(texts) :
        /\ ElementsRead[i]["type"] = "Table"
        /\ ap.table_text_key \in DOMAIN ElementsRead[i]["metadata"]
        /\ ElementsRead[i]["metadata"][ap.table_text_key] # texts[i]
        /\ texts[i] = ap.additional_metadata[1][ap.table_text_key]

\* n_1 + ... + n_k: the elements of the first k files written
ElementCount(k) == Len(DataOf(hist.disk0, SubSeq(hist.written, 1, k)))

\* the sum over i = 1..k of n_1 + ... + n_i
RECURSIVE SumOfCounts(_)
SumOfCounts(k) == IF k = 0 THEN 0 ELSE SumOfCounts(k - 1) + ElementCount(k)

\* after each file, texts and metadata_list hold one entry for every element so far,
\* and with return_langchain_docs the documents have grown by one for every entry of
\* the whole lists
DocumentsAccumulate ==
    pc # "ap_entry" =>
        LET k == Len(hist.written)
        IN  /\ Len(texts) = ElementCount(k)
            /\ Len(metadata_list) = ElementCount(k)
            /\ IF ap.return_langchain_docs
               THEN /\ Len(langchain_docs) = SumOfCounts(k)
                    /\ \A i \in 1..k : \A j \in 1..ElementCount(i) :
                        langchain_docs[SumOfCounts(i - 1) + j] =
                            [page_content |-> texts[j], metadata |-> metadata_list[j]]
               ELSE langchain_docs = <<>>

FilesWithElements == {i \in 1..Len(hist.written) : hist.disk0[hist.written[i]].data # <<>>}

\* C4 as stated: the documents accumulate over the files, and the returned documents
\* are one for each element exactly when at most one file holds elements.
C4_OnePerElementIffOneFile ==
    /\ DocumentsAccumulate
    /\ (Returned /\ ap.return_langchain_docs) =>
            (Len(langchain_docs) = Len(texts) <=> Cardinality(FilesWithElements) <= 1)

\* C4 as amended: the documents accumulate over the files, and the returned documents
\* are one for each element exactly when no file but the last one processed holds
\* elements.
C4_OnePerElementIffOnlyLastFile ==
    /\ DocumentsAccumulate
    /\ (Returned /\ ap.return_langchain_docs) =>
            (Len(langchain_docs) = Len(texts) <=> FilesWithElements \subseteq {Len(hist.written)})

\* two files with elements: more documents than elements
C4_Witness ==
    /\ Returned
    /\ ap.return_langchain_docs
    /\ Cardinality(FilesWithElements) = 2
    /\ Len(langchain_docs) > Len(texts)

\* the element lines 160 and 163 leave in an element that passes the loop
Mutated(e) ==
    LET md == IF Extending THEN Update(e["metadata"], ap.additional_metadata[1])
              ELSE e["metadata"]
        e1 == [e EXCEPT !["metadata"] = md]
    IN  IF ap.replace_table_text /\ e["type"] = "Table"
        THEN SetItem(e1, "text", md[ap.table_text_key])
        ELSE e1

Paths(paths) == {paths[i] : i \in 1..Len(paths)}

\* C10: when additional_processing raises for a malformed element of the k-th file,
\* nothing is returned, the files before the k-th are rewritten with their elements
\* as mutated, and the k-th file and every other file are as they were.
C10_FilesBeforeFailureRewritten ==
    (pc = "done" /\ result.kind = "raise" /\ result.exc = "KeyError") =>
        /\ result.value = None
        /\ Len(hist.read) = Len(hist.written) + 1
        /\ DOMAIN disk = DOMAIN hist.disk0
        /\ \A p \in DOMAIN disk :
            IF p \in Paths(hist.written)
            THEN /\ disk[p].fmt = "indent2"
                 /\ Len(disk[p].data) = Len(hist.disk0[p].data)
                 /\ \A i \in 1..Len(disk[p].data) :
                        disk[p].data[i] = Mutated(hist.disk0[p].data[i])
            ELSE disk[p] = hist.disk0[p]

\* a failure in a second file whose first element had passed the loop as a table,
\* after a first file was rewritten with other elements than it had
C10_Witness ==
    /\ pc = "done"
    /\ result.exc = "KeyError"
    /\ ap.replace_table_text
    /\ Len(hist.written) >= 1
    /\ disk[hist.written[1]].data # hist.disk0[hist.written[1]].data
    /\ hist.disk0[hist.read[Len(hist.read)]].data[1] = Table
    /\ disk[hist.read[Len(hist.read)]] = hist.disk0[hist.read[Len(hist.read)]]

====
